---------------------------- MODULE Spec2Model ----------------------------
(***************************************************************************)
(* A model of the Arcade AI support bot (Golden-YG/Chatbox):               *)
(*   - arcade-ai-bot/src/server.js      the retriever and the HTTP server  *)
(*   - arcade-ai-bot/scripts/ingest.js  the ingestion pipeline             *)
(*                                                                         *)
(* Four specifications share the module's variables:                       *)
(*   RetrieverSpec  selectTopK applied to every bounded index, query, k    *)
(*   Spec           the server: startup load, reloads, question requests   *)
(*                  and the index file changing on disk                    *)
(*   ChunkSpec      the loop of chunkText, one iteration per step          *)
(*   IngestSpec     main() of ingest.js, one await per step                *)
(***************************************************************************)
EXTENDS Integers, Sequences, FiniteSets, TLC

VARIABLES
    \* ---- server.js ----
    vectorIndex,   \* `let vectorIndex' (server.js:24)
    file,          \* data/index.json as the server's fs calls find it
    srvKey,        \* process.env.OPENAI_API_KEY is set and not empty, in the
                   \* server (an empty value, as `OPENAI_API_KEY=' in .env
                   \* gives, passes the constructor of line 19)
    reqs,          \* slot 0: the startup `await loadIndex()' (server.js:142);
                   \* slots 1..MaxReqs: the HTTP requests, one record each
    \* ---- selectTopK on its own ----
    call,          \* the arguments of the last selectTopK call
    topk,          \* what that call returned
    \* ---- chunkText ----
    ctext, csize, coverlap,   \* the arguments text, chunkSize, overlap
    cstart, cchunks,          \* the locals start and chunks
    cpc,                      \* where the call is: "loop", "returned", "oom"
    \* ---- ingest.js main ----
    ipc,           \* where main() is
    cred,          \* process.env.OPENAI_API_KEY is set, in the ingestion run
    limit,         \* parseArgs().limit
    sitemap,       \* what GET /sitemap.xml yielded
    homepage,      \* what GET site yielded
    urls,          \* `let urls' (ingest.js:109)
    upos,          \* how many elements of urls the for-of loop has taken
    vectors,       \* `const vectors' (ingest.js:118)
    fetched,       \* history: every URL handed to axios.get in the loop
    ilog,          \* console output of the ingestion run
    disk           \* data/index.json as the ingestion run finds and leaves it

srvVars == <<vectorIndex, file, srvKey, reqs>>
retVars == <<call, topk>>
chkVars == <<ctext, csize, coverlap, cstart, cchunks, cpc>>
ingVars == <<ipc, cred, limit, sitemap, homepage, urls, upos, vectors, fetched, ilog, disk>>
vars == <<srvVars, retVars, chkVars, ingVars>>

(***************************************************************************)
(* Generic helpers.                                                        *)
(***************************************************************************)
Min(a, b) == IF a <= b THEN a ELSE b
Max(a, b) == IF a >= b THEN a ELSE b
Abs(x) == IF x < 0 THEN -x ELSE x
Sign(x) == IF x < 0 THEN -1 ELSE IF x > 0 THEN 1 ELSE 0
Range(s) == {s[i] : i \in 1..Len(s)}

\* Array.prototype.slice(from, to): negative arguments count from the end.
Slice(s, from, to) ==
    LET n == Len(s)
        lo == IF from < 0 THEN Max(n + from, 0) ELSE Min(from, n)
        hi == IF to < 0 THEN Max(n + to, 0) ELSE Min(to, n)
    IN  SubSeq(s, lo + 1, hi)

\* All sequences over S of length at most n.
SeqsUpTo(S, n) == UNION {[1..m -> S] : m \in 0..n}


(***************************************************************************)
(* server.js: the retriever.                                               *)
(*                                                                         *)
(* An embedding is a sequence of integers.  A similarity score is kept     *)
(* exactly, as the three sums the loop of cosineSimilarity accumulates; it *)
(* stands for the number dot / (sqrt(normA) * sqrt(normB) + 1e-8).         *)
(***************************************************************************)
MaxVectors == 3
MaxK == 4
DefaultK == 6

\* The embeddings the bounded indexes are built from: the three of the
\* spec's scenario 1 scaled by 10, the zero vector, a shorter and an
\* opposite vector.
Embeddings == {<<10, 0>>, <<0, 10>>, <<9, 1>>, <<0, 0>>, <<1, 0>>, <<-10, 0>>}
QueryEmbeddings == {<<10, 0>>, <<0, 0>>, <<1, 1>>}

RECURSIVE SumTo(_, _, _)
\* sum over i < n of a[i] * b[i], as the for loop accumulates it
SumTo(a, b, n) == IF n = 0 THEN 0 ELSE SumTo(a, b, n - 1) + a[n] * b[n]

cosineSimilarity(a, b) ==
    [dot |-> SumTo(a, b, Len(a)),
     normA |-> SumTo(a, a, Len(a)),
     normB |-> SumTo(b, b, Len(a))]

\* The sign of s - t for the numbers two scores stand for.  With
\* D = sqrt(normA * normB), s - t has the sign of
\*    (s.dot * Dt - t.dot * Ds) + 1e-8 * (s.dot - t.dot);
\* the first term, when not zero, is at least 1/(|s.dot|*Dt + |t.dot|*Ds) in
\* size, far above the second for components of size at most 10, and its
\* sign is that of s.dot|s.dot|*Dt^2 - t.dot|t.dot|*Ds^2.
ScoreCmp(s, t) ==
    LET main == Sign(s.dot * Abs(s.dot) * (t.normA * t.normB)
                     - t.dot * Abs(t.dot) * (s.normA * s.normB))
    IN  IF main # 0 THEN main ELSE Sign(s.dot - t.dot)

\* The comparator handed to sort: (a, b) => b.score - a.score, by its sign.
compareFnReversed(a, b) == ScoreCmp(a.score, b.score)
compareFn(a, b) == ScoreCmp(b.score, a.score)

RECURSIVE InsertSorted(_, _)
\* x put into the sorted s behind every element that does not sort after it
InsertSorted(s, x) ==
    IF s = <<>> THEN <<x>>
    ELSE IF compareFn(Head(s), x) > 0 THEN <<x>> \o s
    ELSE <<Head(s)>> \o InsertSorted(Tail(s), x)

RECURSIVE SortStable(_)
\* Array.prototype.sort with compareFn: stable (ECMAScript 2019, Node >= 11)
SortStable(s) ==
    IF s = <<>> THEN <<>>
    ELSE InsertSorted(SortStable(SubSeq(s, 1, Len(s) - 1)), s[Len(s)])

\* ---- the shapes `vectorIndex' takes ----
\* kind "null": null (nothing loaded, or the file held JSON null);
\* kind "object": a parsed object, whose `vectors' is an array or not.  Of a
\* `vectors' that is no array the model keeps what the code reads of it, its
\* length: none when the property is missing (<<>>), else as many elements
\* as `.length' gives (the characters of a string).
NullIndex ==
    [kind |-> "null", site |-> "", generatedAt |-> "", model |-> "",
     isArray |-> FALSE, vectors |-> <<>>]
MkIndex(site, at, model, vecs) ==
    [kind |-> "object", site |-> site, generatedAt |-> at, model |-> model,
     isArray |-> TRUE, vectors |-> vecs]
NoVectorsIndex(model) ==
    [kind |-> "object", site |-> "", generatedAt |-> "", model |-> model,
     isArray |-> FALSE, vectors |-> <<>>]

\* a Chunk/Vector record as the ingestion writes it
\* an object whose `vectors' is the string text, one element per character
StringVectorsIndex(model, text) ==
    [kind |-> "object", site |-> "", generatedAt |-> "", model |-> model,
     isArray |-> FALSE, vectors |-> [i \in 1..Len(text) |-> [char |-> text[i]]]]

MkVec(url, i, title, content, emb) ==
    [id |-> <<url, i>>, url |-> url, title |-> title, content |-> content,
     embedding |-> emb]

\* { ...v, score }
Scored(v, q) ==
    [id |-> v.id, url |-> v.url, title |-> v.title, content |-> v.content,
     embedding |-> v.embedding, score |-> cosineSimilarity(q, v.embedding)]
\* the record a scored copy was made from
Unscored(c) ==
    [id |-> c.id, url |-> c.url, title |-> c.title, content |-> c.content,
     embedding |-> c.embedding]

\* server.js:59, the guard of selectTopK
indexUnusableNoNullCheck(idx) ==
    idx.kind = "object" /\ idx.isArray /\ Len(idx.vectors) = 0
indexUnusable(idx) ==
    idx.kind = "null" \/ ~idx.isArray \/ Len(idx.vectors) = 0

sliceTopKOffByOne(scored, k) == Slice(scored, 0, k + 1)
sliceTopK(scored, k) == Slice(scored, 0, k)

\* selectTopK(questionEmbedding, k) on the index idx: what it returns, or
\* that it threw (reading vectors of null, or calling map on something that
\* is no array, is a TypeError).
selectTopK(idx, q, k) ==
    IF indexUnusable(idx) THEN [threw |-> FALSE, value |-> <<>>]
    ELSE IF idx.kind = "null" \/ ~idx.isArray THEN [threw |-> TRUE, value |-> <<>>]
    ELSE LET scored == [i \in 1..Len(idx.vectors) |-> Scored(idx.vectors[i], q)]
         IN  [threw |-> FALSE, value |-> sliceTopK(SortStable(scored), k)]

\* a selectTopK that scores and sorts the stored array itself
indexSortedInPlace(idx, q) ==
    IF indexUnusable(idx) THEN idx
    ELSE [idx EXCEPT !.vectors =
             SortStable([i \in 1..Len(idx.vectors) |-> Scored(idx.vectors[i], q)])]
\* the index after a call of selectTopK: map builds a new array of new
\* objects ({ ...v, score }) and sort and slice work on that array
\* (server.js:62-64), so the stored one is as it was
indexAfterSelect(idx, q) == idx

\* ---- RetrieverSpec: selectTopK on every bounded index ----
BoundedIndexes ==
    {NullIndex, NoVectorsIndex("m"), StringVectorsIndex("m", <<"a", "b", "c">>)} \cup
    {MkIndex("s", "t", "m", [i \in 1..Len(es) |-> MkVec("u", i - 1, "", "c", es[i])]) :
        es \in SeqsUpTo(Embeddings, MaxVectors)}

NoCall == [made |-> FALSE, q |-> <<>>, k |-> 0]
NoResult == [threw |-> FALSE, value |-> <<>>]

SelectTopKCall ==
    \E q \in QueryEmbeddings, k \in (0..MaxK) \cup {DefaultK} :
        /\ call' = [made |-> TRUE, q |-> q, k |-> k]
        /\ topk' = selectTopK(vectorIndex, q, k)
        /\ vectorIndex' = indexAfterSelect(vectorIndex, q)
        /\ UNCHANGED <<file, srvKey, reqs, chkVars, ingVars>>

(***************************************************************************)
(* ingest.js: chunkText.                                                   *)
(*                                                                         *)
(* A text is a sequence of characters, "a" for any visible character and   *)
(* " " for white space.                                                    *)
(***************************************************************************)
MaxTextLen == 4
MaxChunkSize == 3
DefaultChunkSize == 1200
DefaultOverlap == 150
\* The chunks array grows until the heap is exhausted and V8 aborts the
\* process; the bound stands for the heap, above what any call that returns
\* on a text of the model pushes (at most one chunk per character).
MaxChunks == MaxTextLen + 2

Chars == {"a", " "}
IsSpace(c) == c = " "
TextOfLen(n) == [i \in 1..n |-> "a"]

\* the text as it is, nothing trimmed
TrimNothing(s) == s
\* String.prototype.trim
Trim(s) ==
    IF \A i \in 1..Len(s) : IsSpace(s[i]) THEN <<>>
    ELSE LET first == CHOOSE i \in 1..Len(s) :
                          ~IsSpace(s[i]) /\ \A j \in 1..(i - 1) : IsSpace(s[j])
             last == CHOOSE i \in 1..Len(s) :
                          ~IsSpace(s[i]) /\ \A j \in (i + 1)..Len(s) : IsSpace(s[j])
         IN  SubSeq(s, first, last)

\* One iteration of the while loop (ingest.js:85-90) from `start' with
\* `chunks': the new start, the new chunks, and whether line 90 breaks.
newStart(end, overlap) == Max(end - overlap, 0)

ChunkStep(text, chunkSize, overlap, start, chunks) ==
    LET end == Min(Len(text), start + chunkSize)
        chunk == SubSeq(text, start + 1, end)
        pushed == Len(Trim(chunk)) > 0
        next == newStart(end, overlap)
    IN  [start |-> next,
         chunks |-> IF pushed THEN Append(chunks, Trim(chunk)) ELSE chunks,
         pushed |-> pushed,
         break |-> next >= Len(text)]

ChunkArgs ==
    {[text |-> t, chunkSize |-> c, overlap |-> o] :
        t \in SeqsUpTo(Chars, MaxTextLen), c \in 1..MaxChunkSize, o \in 0..MaxChunkSize}
    \cup {[text |-> TextOfLen(n), chunkSize |-> DefaultChunkSize, overlap |-> DefaultOverlap] :
        n \in {1500}}

\* the while condition holds: one iteration
ChunkIterate ==
    /\ cpc = "loop"
    /\ cstart < Len(ctext)
    /\ LET r == ChunkStep(ctext, csize, coverlap, cstart, cchunks)
       IN  IF r.pushed /\ Len(cchunks) >= MaxChunks
           THEN /\ cpc' = "oom"
                /\ UNCHANGED <<cstart, cchunks>>
           ELSE /\ cstart' = r.start
                /\ cchunks' = r.chunks
                /\ cpc' = IF r.break THEN "returned" ELSE "loop"
    /\ UNCHANGED <<ctext, csize, coverlap, srvVars, retVars, ingVars>>

\* the while condition fails: return chunks
ChunkReturn ==
    /\ cpc = "loop"
    /\ cstart >= Len(ctext)
    /\ cpc' = "returned"
    /\ UNCHANGED <<ctext, csize, coverlap, cstart, cchunks, srvVars, retVars, ingVars>>

\* chunkText(text, chunkSize, overlap) as one call: what it returns, or how
\* it fails to.  `start' never decreases; an iteration that leaves it where
\* it was and does not break is repeated for ever, pushing its chunk each
\* time until the heap is exhausted ("oom") or pushing nothing ("hang").
RECURSIVE ChunkRun(_, _, _, _, _)
ChunkRun(text, chunkSize, overlap, start, chunks) ==
    IF start >= Len(text) THEN [outcome |-> "returned", chunks |-> chunks]
    ELSE LET r == ChunkStep(text, chunkSize, overlap, start, chunks)
         IN  IF r.break THEN [outcome |-> "returned", chunks |-> r.chunks]
             ELSE IF r.start = start
                  THEN [outcome |-> IF r.pushed THEN "oom" ELSE "hang",
                        chunks |-> <<>>]
                  ELSE ChunkRun(text, chunkSize, overlap, r.start, r.chunks)

chunkText(text, chunkSize, overlap) == ChunkRun(text, chunkSize, overlap, 0, <<>>)

(***************************************************************************)
(* server.js: loadIndex, answerQuestion and the HTTP handlers.             *)
(***************************************************************************)
MaxReqs == 2

\* ---- data/index.json ----
\* state "absent": no such file; "partial": a file that is no JSON text (one
\* being written by fs.writeFile, or a damaged one); "json": a JSON text,
\* doc being the value JSON.parse returns for it.
FileAbsent == [state |-> "absent", doc |-> NullIndex]
FilePartial == [state |-> "partial", doc |-> NullIndex]
FileJson(doc) == [state |-> "json", doc |-> doc]
\* something that is no file is in the place of index.json (a directory)
FileBlocked == [state |-> "blocked", doc |-> NullIndex]

ScenarioEmbeddings == <<(<<10, 0>>), (<<0, 10>>), (<<9, 1>>)>>
\* an index of n vectors from page u, embeddings taken in turn
IndexOfSize(site, at, model, u, n) ==
    MkIndex(site, at, model,
            [i \in 1..n |-> MkVec(u, i - 1, IF i = 2 THEN "" ELSE "T", "c",
                                  ScenarioEmbeddings[((i - 1) % 3) + 1])])

ServerDocs ==
    {NullIndex,                                        \* the text `null'
     NoVectorsIndex("m0"),                             \* an object without vectors
     IndexOfSize("s", "t1", "m1", "u1", 0),
     IndexOfSize("s", "t2", "m2", "u2", 2),
     IndexOfSize("s", "t3", "m3", "u3", DefaultK + 1)}
FileContents == {FileAbsent, FilePartial} \cup {FileJson(d) : d \in ServerDocs}

ServerQueries == {<<10, 0>>, <<0, 0>>}

\* ---- a request slot ----
NoResp == [status |-> 0, error |-> "", reply |-> <<>>, sources |-> <<>>, vectors |-> 0]
IdleSlot ==
    [kind |-> "none", pc |-> "idle", question |-> <<>>,
     called |-> FALSE, seen |-> NullIndex, contexts |-> <<>>,
     embedCalls |-> 0, chatCalls |-> 0, threw |-> "", log |-> <<>>, resp |-> NoResp]
StartupSlot == [IdleSlot EXCEPT !.kind = "startup", !.pc = "pathExists"]

Slots == 1..MaxReqs
Listening == reqs[0].pc = "done"
\* slots are taken in order: they are interchangeable
Free(s) ==
    /\ Listening
    /\ reqs[s].kind = "none"
    /\ \A t \in 1..(s - 1) : reqs[t].kind # "none"

ErrorResp(status, msg) == [NoResp EXCEPT !.status = status, !.error = msg]
Logged(r, entry) == [r EXCEPT !.log = Append(@, entry)]

\* vectorIndex?.vectors?.length || 0  (server.js:32, 139): the length of
\* whatever `vectors' is, array or not
vectorCount(idx) ==
    IF idx.kind = "null" THEN 0 ELSE Len(idx.vectors)

\* server.js:31, `vectorIndex = JSON.parse(raw)': the new value of the
\* variable, given its old value and the parsed document
assignInPlace(old, doc) ==
    IF old.kind = "object" /\ doc.kind = "object"
    THEN [old EXCEPT !.vectors = doc.vectors, !.isArray = doc.isArray]
    ELSE doc
assignParsed(old, doc) == doc

\* loadIndex has resolved in slot s, the slot's record being r by now:
\* the startup goes on to listen, a reload request answers (server.js:139).
LoadResolved(s, r, idx) ==
    IF r.kind = "startup" THEN [r EXCEPT !.pc = "done"]
    ELSE [r EXCEPT !.pc = "done",
                   !.resp = [NoResp EXCEPT !.status = 200, !.vectors = vectorCount(idx)]]

\* POST /admin/reload arrives: loadIndex is called and awaits fs.pathExists
ReloadStart(s) ==
    /\ Free(s)
    /\ reqs' = [reqs EXCEPT ![s] = [IdleSlot EXCEPT !.kind = "reload", !.pc = "pathExists"]]
    /\ UNCHANGED <<vectorIndex, file, srvKey, retVars, chkVars, ingVars>>

\* fs.pathExists resolves (server.js:29): on to fs.readFile, or the warning
LoadPathExists(s) ==
    /\ reqs[s].pc = "pathExists"
    /\ reqs' = [reqs EXCEPT ![s] =
                  IF file.state # "absent" THEN [@ EXCEPT !.pc = "readFile"]
                  ELSE LoadResolved(s, Logged(@, "warn: No data/index.json found"),
                                    vectorIndex)]
    /\ UNCHANGED <<vectorIndex, file, srvKey, retVars, chkVars, ingVars>>

\* a loadIndex that clears the variable before it reads the file
LoadReadFileClearFirst(s) ==
    /\ reqs[s].pc = "readFile"
    /\ \E ioError \in BOOLEAN :
        LET readFails == file.state = "absent" \/ ioError
            parseFails == file.state = "partial"
            logThrows == file.doc.kind = "null"
            idx == IF readFails \/ parseFails THEN NullIndex ELSE file.doc
            entry == IF readFails \/ parseFails \/ logThrows
                     THEN "error: Failed to load index"
                     ELSE "info: RAG index loaded"
            cause == IF readFails THEN "readFile"
                     ELSE IF parseFails THEN "JSON.parse"
                     ELSE IF logThrows THEN "logger.info" ELSE ""
        IN  /\ vectorIndex' = idx
            /\ reqs' = [reqs EXCEPT ![s] =
                          LoadResolved(s, [Logged(@, entry) EXCEPT !.threw = cause], idx)]
    /\ UNCHANGED <<file, srvKey, retVars, chkVars, ingVars>>
\* fs.readFile settles (server.js:30); then, in the same turn, JSON.parse,
\* the assignment, the log call and the catch block (server.js:31-38);
\* threw records the call the catch block caught, if any
LoadReadFile(s) ==
    /\ reqs[s].pc = "readFile"
    /\ \E ioError \in BOOLEAN :
        LET readFails == file.state = "absent" \/ ioError
            parseFails == file.state = "partial"
            \* logger.info reads vectorIndex.vectors: a TypeError on null
            logThrows == file.doc.kind = "null"
            idx == IF readFails \/ parseFails THEN vectorIndex
                   ELSE assignParsed(vectorIndex, file.doc)
            entry == IF readFails \/ parseFails \/ logThrows
                     THEN "error: Failed to load index"
                     ELSE "info: RAG index loaded"
            cause == IF readFails THEN "readFile"
                     ELSE IF parseFails THEN "JSON.parse"
                     ELSE IF logThrows THEN "logger.info" ELSE ""
        IN  /\ vectorIndex' = idx
            /\ reqs' = [reqs EXCEPT ![s] =
                          LoadResolved(s, [Logged(@, entry) EXCEPT !.threw = cause], idx)]
    /\ UNCHANGED <<file, srvKey, retVars, chkVars, ingVars>>

\* ---- the question handlers ----
\* what a request carries as its question: nothing, or a text
RawQuestions ==
    {[present |-> FALSE, text |-> <<>>]} \cup
    {[present |-> TRUE, text |-> t] : t \in {<<>>, <<" ">>, <<"a">>, <<" ", "a">>}}
\* (req.body?.question || '').toString().trim()  (server.js:110, 127)
questionOf(raw) == IF raw.present THEN Trim(raw.text) ELSE <<>>

\* answerQuestion is entered: embedText is called and awaited (server.js:84)
Asking(kind, question) ==
    [IdleSlot EXCEPT !.kind = kind, !.pc = "embedding", !.question = question,
                     !.embedCalls = 1]
Rejected(kind, question, status, msg) ==
    [IdleSlot EXCEPT !.kind = kind, !.pc = "done", !.question = question,
                     !.resp = ErrorResp(status, msg)]

\* POST /bot/answer arrives (server.js:108-117)
AnswerStart(s) ==
    /\ Free(s)
    /\ \E raw \in RawQuestions :
        reqs' = [reqs EXCEPT ![s] =
                   IF ~srvKey
                   THEN Rejected("answer", questionOf(raw), 500, "Missing OPENAI_API_KEY")
                   ELSE IF questionOf(raw) = <<>>
                        THEN Rejected("answer", <<>>, 400, "Missing question")
                        ELSE Asking("answer", questionOf(raw))]
    /\ UNCHANGED <<vectorIndex, file, srvKey, retVars, chkVars, ingVars>>

\* GET /test arrives (server.js:125-129)
TestStart(s) ==
    /\ Free(s)
    /\ \E raw \in RawQuestions :
        reqs' = [reqs EXCEPT ![s] =
                   IF questionOf(raw) = <<>> THEN Rejected("test", <<>>, 400, "Missing q")
                   ELSE Asking("test", questionOf(raw))]
    /\ UNCHANGED <<vectorIndex, file, srvKey, retVars, chkVars, ingVars>>

\* a handler that calls embedText once more when it has failed
CaughtRetry(r, what) ==
    IF what = "embedText" /\ r.embedCalls < 2
    THEN [r EXCEPT !.embedCalls = @ + 1]
    ELSE [Logged(r, IF r.kind = "answer" THEN "error: Error answering" ELSE "error: Test failed")
             EXCEPT !.pc = "done", !.threw = what, !.resp = ErrorResp(500, "Internal error")]
\* the catch blocks of the two handlers (server.js:119-122, 131-134), `what'
\* being the call that threw
Caught(r, what) ==
    [Logged(r, IF r.kind = "answer" THEN "error: Error answering" ELSE "error: Test failed")
        EXCEPT !.pc = "done", !.threw = what, !.resp = ErrorResp(500, "Internal error")]

\* the embedding call settles (server.js:84); then selectTopK, the prompts
\* and the completion call, which is awaited (server.js:85-97)
EmbedDone(s) ==
    /\ reqs[s].pc = "embedding"
    /\ \E ok \in BOOLEAN, q \in ServerQueries :
        LET r == reqs[s]
            sel == selectTopK(vectorIndex, q, DefaultK)
        IN  /\ reqs' = [reqs EXCEPT ![s] =
                          IF ~ok THEN Caught(r, "embedText")
                          ELSE IF sel.threw
                               THEN Caught([r EXCEPT !.called = TRUE, !.seen = vectorIndex],
                                           "selectTopK")
                               ELSE [r EXCEPT !.pc = "completing", !.called = TRUE,
                                              !.seen = vectorIndex,
                                              !.contexts = sel.value, !.chatCalls = 1]]
            /\ vectorIndex' = IF ok THEN indexAfterSelect(vectorIndex, q) ELSE vectorIndex
    /\ UNCHANGED <<file, srvKey, retVars, chkVars, ingVars>>

\* what the completion service returns as choices[0].message.content
ChatContents ==
    {[present |-> FALSE, text |-> <<>>]} \cup
    {[present |-> TRUE, text |-> t] : t \in {<<>>, <<" ">>, <<"a", " ">>}}
FallbackReply == <<"I'm not sure yet; let me connect you with a human teammate.">>
\* chat.choices?.[0]?.message?.content?.trim() || "I'm not sure yet; ..."
replyOf(content) ==
    IF content.present /\ Trim(content.text) # <<>> THEN Trim(content.text)
    ELSE FallbackReply

MaxSources == 3
\* every context named, none cut
sourcesOfAll(contexts) ==
    [i \in 1..Len(contexts) |-> [title |-> contexts[i].title, url |-> contexts[i].url]]
\* contexts.slice(0, 3).map(c => ({ title: c.title || '', url: c.url }))
sourcesOf(contexts) ==
    LET top == Slice(contexts, 0, MaxSources)
    IN  [i \in 1..Len(top) |-> [title |-> top[i].title, url |-> top[i].url]]

\* the completion call settles (server.js:89-101); the handler answers
ChatDone(s) ==
    /\ reqs[s].pc = "completing"
    /\ \E ok \in BOOLEAN, content \in ChatContents :
        LET r == reqs[s]
        IN  reqs' = [reqs EXCEPT ![s] =
                       IF ~ok THEN Caught(r, "completion")
                       ELSE [r EXCEPT !.pc = "done",
                                      !.resp = [NoResp EXCEPT !.status = 200,
                                                              !.reply = replyOf(content),
                                                              !.sources = sourcesOf(r.contexts)]]]
    /\ UNCHANGED <<vectorIndex, file, srvKey, retVars, chkVars, ingVars>>

\* the file changes under the server: an ingestion run starts or ends its
\* write, or the file is removed or replaced by hand.  The server looks at
\* the file only in the steps of a loadIndex (pathExists, readFile), so a
\* change is taken while a loadIndex is under way to see it.
FileChange ==
    /\ \E s \in 0..MaxReqs : reqs[s].pc \in {"pathExists", "readFile"}
    /\ \E f \in FileContents \ {file} : file' = f
    /\ UNCHANGED <<vectorIndex, srvKey, reqs, retVars, chkVars, ingVars>>

(***************************************************************************)
(* ingest.js: URL discovery and main().                                    *)
(*                                                                         *)
(* URLs are the strings the program handles.  What `new URL' makes of each *)
(* string of the model is tabulated below (WHATWG URL: scheme and host are *)
(* lower-cased, a default port is dropped, a string without a scheme does  *)
(* not parse without a base).                                              *)
(***************************************************************************)
MaxLocs == 2
MaxLimitArg == 2
DefaultLimit == 40
MinTextLen == 200

DefaultSite == "https://www.arcade.ai"
EmbeddingModel == "text-embedding-3-small"

UrlOk(protocol, host, href) ==
    [ok |-> TRUE, protocol |-> protocol, host |-> host, href |-> href]
UrlBad == [ok |-> FALSE, protocol |-> "", host |-> "", href |-> ""]

\* new URL(u)
newURL(u) ==
    CASE u = "https://www.arcade.ai" ->
            UrlOk("https:", "www.arcade.ai", "https://www.arcade.ai/")
      [] u = "https://www.arcade.ai/" ->
            UrlOk("https:", "www.arcade.ai", "https://www.arcade.ai/")
      [] u = " https://www.arcade.ai/a " ->       \* the spaces around are stripped
            UrlOk("https:", "www.arcade.ai", "https://www.arcade.ai/a")
      [] u = "https://www.arcade.ai/a" ->
            UrlOk("https:", "www.arcade.ai", "https://www.arcade.ai/a")
      [] u = "https://www.arcade.ai/b" ->
            UrlOk("https:", "www.arcade.ai", "https://www.arcade.ai/b")
      [] u = "https://www.arcade.ai/c" ->
            UrlOk("https:", "www.arcade.ai", "https://www.arcade.ai/c")
      [] u = "HTTPS://WWW.ARCADE.AI/c" ->
            UrlOk("https:", "www.arcade.ai", "https://www.arcade.ai/c")
      [] u = "http://www.arcade.ai/a" ->
            UrlOk("http:", "www.arcade.ai", "http://www.arcade.ai/a")
      [] u = "https://www.arcade.ai:8443/a" ->
            UrlOk("https:", "www.arcade.ai:8443", "https://www.arcade.ai:8443/a")
      [] u = "https://evil.example/a" ->
            UrlOk("https:", "evil.example", "https://evil.example/a")
      [] OTHER -> UrlBad

\* new URL(href, site), for site = DefaultSite
newURLWithBase(href, site) ==
    CASE href = "" -> newURL(site)                \* the base itself
      [] href = " " -> newURL(site)
      [] href = "/a" -> newURL("https://www.arcade.ai/a")
      [] href = "b" -> newURL("https://www.arcade.ai/b")
      [] href = "http://[" -> UrlBad
      [] OTHER -> newURL(href)

\* String.prototype.trim on a <loc> text
trimLoc(l) ==
    CASE l = " https://www.arcade.ai/a " -> "https://www.arcade.ai/a"
      [] l = " " -> ""
      [] OTHER -> l

sameHostHostOnly(url, site) ==
    LET a == newURL(url)
        b == newURL(site)
    IN  a.ok /\ b.ok /\ a.host = b.host
sameHost(url, site) ==
    LET a == newURL(url)
        b == newURL(site)
    IN  a.ok /\ b.ok /\ a.host = b.host /\ a.protocol = b.protocol

RECURSIVE Filter(_, _)
\* Array.prototype.filter, Keep being the set of elements the test accepts
Filter(s, Keep) ==
    IF s = <<>> THEN <<>>
    ELSE (IF Head(s) \in Keep THEN <<Head(s)>> ELSE <<>>) \o Filter(Tail(s), Keep)

RECURSIVE Dedupe(_)
\* Array.from(new Set(...)): first occurrences, in insertion order
Dedupe(s) ==
    IF s = <<>> THEN <<>>
    ELSE LET front == Dedupe(SubSeq(s, 1, Len(s) - 1))
             x == s[Len(s)]
         IN  IF x \in Range(front) THEN front ELSE Append(front, x)

\* what a GET of /sitemap.xml and of the homepage yield: a failure (of the
\* fetch or of the parse), or the <loc> texts, or the href attributes
Locs ==
    {"https://www.arcade.ai/a", "https://www.arcade.ai/b", "HTTPS://WWW.ARCADE.AI/c",
     "http://www.arcade.ai/a", "https://www.arcade.ai:8443/a", "https://evil.example/a",
     "/a", " https://www.arcade.ai/a ", ""}
Hrefs ==
    {"/a", "b", "https://www.arcade.ai/a", "HTTPS://WWW.ARCADE.AI/c",
     "http://www.arcade.ai/a", "https://evil.example/a", "http://[", ""}
NotFetched == [fetched |-> FALSE, ok |-> FALSE, items |-> <<>>]
Failed == [fetched |-> TRUE, ok |-> FALSE, items |-> <<>>]
Got(items) == [fetched |-> TRUE, ok |-> TRUE, items |-> items]
SitemapResults == {Failed} \cup {Got(l) : l \in SeqsUpTo(Locs, MaxLocs)}
HomepageResults == {Failed} \cup {Got(h) : h \in SeqsUpTo(Hrefs, MaxLocs)}

\* fetchSitemapUrls (ingest.js:40-52)
fetchSitemapUrls(res) ==
    IF ~res.ok THEN <<>>
    ELSE LET trimmed == [i \in 1..Len(res.items) |-> trimLoc(res.items[i])]
         IN  Filter(trimmed, Range(trimmed) \ {""})

\* the hrefs kept as the page writes them
fetchHomepageUrlsUnresolved(res, site) ==
    IF ~res.ok THEN <<>>
    ELSE LET usable == {h \in Range(res.items) :
                          /\ h # ""
                          /\ newURLWithBase(h, site).ok
                          /\ sameHost(newURLWithBase(h, site).href, site)}
         IN  Dedupe(Filter(res.items, usable))
\* fetchHomepageUrls (ingest.js:54-71)
fetchHomepageUrls(res, site) ==
    IF ~res.ok THEN <<>>
    ELSE LET usable == {h \in Range(res.items) :
                          /\ h # ""
                          /\ newURLWithBase(h, site).ok
                          /\ sameHost(newURLWithBase(h, site).href, site)}
             kept == Filter(res.items, usable)
         IN  Dedupe([i \in 1..Len(kept) |-> newURLWithBase(kept[i], site).href])

\* ingest.js:113-114
sliceLimit(us, lim) == Slice(us, 0, lim)
inScope(us, site, lim) ==
    sliceLimit(Filter(us, {u \in Range(us) : sameHost(u, site)}), lim)

\* ---- pages ----
RECURSIVE CollapseSpaces(_)
\* replace(/\s+/g, ' '), by halves
CollapseSpaces(s) ==
    IF Len(s) <= 1 THEN s
    ELSE LET m == Len(s) \div 2
             l == CollapseSpaces(SubSeq(s, 1, m))
             r == CollapseSpaces(SubSeq(s, m + 1, Len(s)))
         IN  IF IsSpace(l[Len(l)]) /\ IsSpace(r[1]) THEN l \o Tail(r) ELSE l \o r

\* extractTitleAndText (ingest.js:73-79), on the title text and the body
\* text cheerio finds in the page
extractTitleAndText(page) ==
    [title |-> Trim(page.title), text |-> Trim(CollapseSpaces(page.text))]

PageTexts ==
    {TextOfLen(n) : n \in {0, 50, MinTextLen - 1, MinTextLen, 1500}}
    \cup {<<" ", "a", " ", " ", "a", " ">>}
PageTitles == {<<>>, <<" ", "a">>}
\* what axios.get(url) yields, and what lines 122-124 make of it
FetchFailed == [ok |-> FALSE, title |-> <<>>, text |-> <<>>, outcome |-> "", chunks |-> <<>>]
Fetched(page) ==
    LET e == extractTitleAndText(page)
        c == chunkText(e.text, DefaultChunkSize, DefaultOverlap)
    IN  [ok |-> TRUE, title |-> e.title, text |-> e.text,
         outcome |-> c.outcome, chunks |-> c.chunks]
PageResults ==
    {FetchFailed} \cup
    {Fetched([title |-> t, text |-> x]) : t \in PageTitles, x \in PageTexts}

\* ---- main() (ingest.js:100-150) ----
\* ipc: "start"; "sitemap", "homepage": awaiting that fetch; "loop": at the
\* head of the for-of loop; "writing": fs.writeFile has opened the file;
\* "closing": it has written it;
\* "done": main returned; "exit1": process.exit(1);
\* "crashed": V8 aborted the process on heap exhaustion; "hung": the process
\* spins in a loop that changes nothing.
Ended == ipc \in {"done", "exit1", "crashed", "hung"}

\* the check of line 102 with its process.exit(1) left out
StartRunWithoutExit ==
    /\ ipc = "start"
    /\ ipc' = "sitemap"
    /\ ilog' = IF ~cred THEN Append(ilog, <<"error", "Missing OPENAI_API_KEY">>) ELSE ilog
    /\ UNCHANGED <<cred, limit, sitemap, homepage, urls, upos, vectors, fetched, disk>>
    /\ UNCHANGED <<srvVars, retVars, chkVars>>
\* main().catch (ingest.js:152-155): what main() rejected with is printed
\* and the process exits with status 1
mainCatch(err) == [ipc |-> "exit1", entry |-> <<"error", err>>]
FsErrors == {"ensureDir rejected", "writeFile rejected"}

\* ingest.js:101-107; fs.ensureDir resolves, or rejects (the data directory
\* cannot be made) and main() rejects with it
StartRun ==
    /\ ipc = "start"
    /\ \E dirOk \in BOOLEAN :
        IF ~cred
        THEN /\ ipc' = "exit1"
             /\ ilog' = Append(ilog, <<"error", "Missing OPENAI_API_KEY">>)
        ELSE IF ~dirOk
        THEN /\ ipc' = mainCatch("ensureDir rejected").ipc
             /\ ilog' = Append(ilog, mainCatch("ensureDir rejected").entry)
        ELSE /\ ipc' = "sitemap"
             /\ ilog' = ilog
    /\ UNCHANGED <<cred, limit, sitemap, homepage, urls, upos, vectors, fetched, disk>>
    /\ UNCHANGED <<srvVars, retVars, chkVars>>

\* ingest.js:113-116, once the candidate URLs are known
Discovered(found) ==
    /\ urls' = inScope(found, DefaultSite, limit)
    /\ ilog' = Append(ilog, <<"log", "Discovered", Len(inScope(found, DefaultSite, limit))>>)
    /\ ipc' = "loop"

\* ingest.js:109-110: the sitemap fetch settles
FetchSitemap ==
    /\ ipc = "sitemap"
    /\ \E res \in SitemapResults :
        /\ sitemap' = res
        /\ IF Len(fetchSitemapUrls(res)) = 0
           THEN /\ ipc' = "homepage"
                /\ UNCHANGED <<urls, ilog>>
           ELSE Discovered(fetchSitemapUrls(res))
    /\ UNCHANGED <<cred, limit, homepage, upos, vectors, fetched, disk>>
    /\ UNCHANGED <<srvVars, retVars, chkVars>>

\* ingest.js:111: the homepage fetch settles
FetchHomepage ==
    /\ ipc = "homepage"
    /\ \E res \in HomepageResults :
        /\ homepage' = res
        /\ Discovered(fetchHomepageUrls(res, DefaultSite))
    /\ UNCHANGED <<cred, limit, sitemap, upos, vectors, fetched, disk>>
    /\ UNCHANGED <<srvVars, retVars, chkVars>>

\* ingest.js:136-138, the catch block of the loop body: the warning, and
\* where main() goes on
catchPageRethrow(url) == [ipc |-> "exit1", entry |-> <<"error", "Failed to ingest", url>>]
catchPage(url) == [ipc |-> "loop", entry |-> <<"warn", "Failed to ingest", url>>]

\* ingest.js:126-134: one record per chunk
pageVectors(url, title, chunks, embeddings) ==
    [i \in 1..Len(chunks) |-> MkVec(url, i - 1, title, chunks[i], embeddings[i])]

PageEmbeddings == [1..2 -> {<<10, 0>>, <<0, 10>>}]

\* ingest.js:119-139: one iteration of the for-of loop, for the next URL.
\* page is what axios.get yields and lines 122-124 make of it; embedOk and
\* embeddings are what embedBatch would yield.
ProcessPage ==
    /\ ipc = "loop"
    /\ upos < Len(urls)
    /\ \E page \in PageResults, embedOk \in BOOLEAN, embeddings \in PageEmbeddings :
        LET url == urls[upos + 1]
            caught == catchPage(url)
        IN  /\ fetched' = Append(fetched, url)
            /\ upos' = upos + 1
            /\ IF ~page.ok
               THEN /\ ilog' = Append(ilog, caught.entry)
                    /\ ipc' = caught.ipc
                    /\ UNCHANGED vectors
               ELSE IF Len(page.text) < MinTextLen
               THEN UNCHANGED <<ipc, vectors, ilog>>
               ELSE IF page.outcome # "returned"
               THEN /\ ipc' = (IF page.outcome = "oom" THEN "crashed" ELSE "hung")
                    /\ UNCHANGED <<vectors, ilog>>
               ELSE IF ~embedOk
               THEN /\ ilog' = Append(ilog, caught.entry)
                    /\ ipc' = caught.ipc
                    /\ UNCHANGED vectors
               ELSE /\ vectors' = vectors \o pageVectors(url, page.title, page.chunks, embeddings)
                    /\ ilog' = Append(ilog, <<"log", "Ingested", url, Len(page.chunks)>>)
                    /\ UNCHANGED ipc
    /\ UNCHANGED <<cred, limit, sitemap, homepage, urls, disk>>
    /\ UNCHANGED <<srvVars, retVars, chkVars>>

\* ingest.js:141-148: the loop is over and fs.writeFile is called.  It
\* opens index.json for writing, which cuts the file to 0 bytes (a file that
\* is no JSON), and returns to the event loop before it writes; or the open
\* is refused (always so when a directory is in the place of index.json),
\* the file stays as it was and main() rejects.
OpenIndex ==
    /\ ipc = "loop"
    /\ upos = Len(urls)
    /\ \E openOk \in BOOLEAN :
        IF openOk /\ disk # FileBlocked
        THEN /\ disk' = FilePartial
             /\ ipc' = "writing"
             /\ ilog' = ilog
        ELSE /\ disk' = disk
             /\ ilog' = Append(ilog, mainCatch("writeFile rejected").entry)
             /\ ipc' = mainCatch("writeFile rejected").ipc
    /\ UNCHANGED <<cred, limit, sitemap, homepage, urls, upos, vectors, fetched>>
    /\ UNCHANGED <<srvVars, retVars, chkVars>>

\* ingest.js:148: the write of fs.writeFile settles: the file holds the
\* whole index, and the close is awaited; or the write is refused after the
\* open, the file is left cut and main() rejects
WriteIndex ==
    /\ ipc = "writing"
    /\ \E writeOk \in BOOLEAN :
        IF writeOk
        THEN /\ disk' = FileJson(MkIndex(DefaultSite, "now", EmbeddingModel, vectors))
             /\ ilog' = ilog
             /\ ipc' = "closing"
        ELSE /\ disk' = disk
             /\ ilog' = Append(ilog, mainCatch("writeFile rejected").entry)
             /\ ipc' = mainCatch("writeFile rejected").ipc
    /\ UNCHANGED <<cred, limit, sitemap, homepage, urls, upos, vectors, fetched>>
    /\ UNCHANGED <<srvVars, retVars, chkVars>>

\* ingest.js:148-149: the close of fs.writeFile settles and the promise
\* with it: line 149 logs and main() returns; or the close fails, the file
\* holding the whole index all the same, and main() rejects
CloseIndex ==
    /\ ipc = "closing"
    /\ \E closeOk \in BOOLEAN :
        IF closeOk
        THEN /\ ilog' = Append(ilog, <<"log", "Saved index", Len(vectors)>>)
             /\ ipc' = "done"
        ELSE /\ ilog' = Append(ilog, mainCatch("writeFile rejected").entry)
             /\ ipc' = mainCatch("writeFile rejected").ipc
    /\ UNCHANGED <<cred, limit, sitemap, homepage, urls, upos, vectors, fetched, disk>>
    /\ UNCHANGED <<srvVars, retVars, chkVars>>

(***************************************************************************)
(* The specifications.                                                     *)
(***************************************************************************)
SrvIdle ==
    /\ vectorIndex = NullIndex
    /\ file = FileAbsent
    /\ srvKey = TRUE
    /\ reqs = <<>>
RetIdle == call = NoCall /\ topk = NoResult
ChkIdle ==
    /\ ctext = <<>> /\ csize = DefaultChunkSize /\ coverlap = DefaultOverlap
    /\ cstart = 0 /\ cchunks = <<>> /\ cpc = "returned"
IngIdle ==
    /\ ipc = "done" /\ cred = TRUE /\ limit = DefaultLimit
    /\ sitemap = NotFetched /\ homepage = NotFetched
    /\ urls = <<>> /\ upos = 0 /\ vectors = <<>> /\ fetched = <<>> /\ ilog = <<>>
    /\ disk = FileAbsent

\* the server process, from the moment it calls loadIndex at startup
Init ==
    /\ vectorIndex = NullIndex
    /\ file \in FileContents
    /\ srvKey \in BOOLEAN
    /\ reqs = [s \in 0..MaxReqs |-> IF s = 0 THEN StartupSlot ELSE IdleSlot]
    /\ RetIdle /\ ChkIdle /\ IngIdle
Next ==
    \/ \E s \in 0..MaxReqs : LoadPathExists(s) \/ LoadReadFile(s)
    \/ \E s \in Slots :
         ReloadStart(s) \/ AnswerStart(s) \/ TestStart(s) \/ EmbedDone(s) \/ ChatDone(s)
    \/ FileChange
Spec == Init /\ [][Next]_vars

\* selectTopK with an index loaded
RetrieverInit ==
    /\ vectorIndex \in BoundedIndexes
    /\ file = FileAbsent /\ srvKey = TRUE
    /\ reqs = <<>>
    /\ RetIdle /\ ChkIdle /\ IngIdle
RetrieverNext == SelectTopKCall
RetrieverSpec == RetrieverInit /\ [][RetrieverNext]_vars

\* one call of chunkText
ChunkInit ==
    /\ \E a \in ChunkArgs :
        ctext = a.text /\ csize = a.chunkSize /\ coverlap = a.overlap
    /\ cstart = 0 /\ cchunks = <<>> /\ cpc = "loop"
    /\ SrvIdle /\ RetIdle /\ IngIdle
ChunkNext == ChunkIterate \/ ChunkReturn
ChunkSpec == ChunkInit /\ [][ChunkNext]_vars
\* the engine keeps running the loop for as long as it has a next step
FairChunkSpec == ChunkSpec /\ WF_vars(ChunkNext)

\* one ingestion run
\* Number(args.limit || 40) (ingest.js:24): --limit=0 stays 0 (the string
\* "0" is truthy), a negative number stays what it is, no --limit gives 40
LimitArgs == (-1..MaxLimitArg) \cup {DefaultLimit}
PriorIndex == MkIndex(DefaultSite, "before", EmbeddingModel, <<MkVec("old", 0, <<>>, <<"a">>, <<1, 0>>)>>)
IngestInit ==
    /\ ipc = "start"
    /\ cred \in BOOLEAN
    /\ limit \in LimitArgs
    /\ sitemap = NotFetched /\ homepage = NotFetched
    /\ urls = <<>> /\ upos = 0 /\ vectors = <<>> /\ fetched = <<>> /\ ilog = <<>>
    /\ disk \in {FileAbsent, FileJson(PriorIndex), FileBlocked}
    /\ SrvIdle /\ RetIdle /\ ChkIdle
IngestNext ==
    \/ StartRun \/ FetchSitemap \/ FetchHomepage \/ ProcessPage
    \/ OpenIndex \/ WriteIndex \/ CloseIndex
IngestSpec == IngestInit /\ [][IngestNext]_vars

(***************************************************************************)
(* The claims.                                                             *)
(***************************************************************************)
\* the number of vectors of an index: the records of its vectors array
VectorsInMemory(idx) == IF idx.kind = "object" /\ idx.isArray THEN Len(idx.vectors) ELSE 0

\* the position in the index of the record with this id
PositionOf(idx, id) == CHOOSE i \in 1..Len(idx.vectors) : idx.vectors[i].id = id

\* C1 (RetrieverSpec): for every loaded index and every k >= 0, selectTopK
\* returns without throwing exactly min(k, |vectors|) records, each one a
\* record of the loaded index (with its score added), no record twice.
C1_TopKLength ==
    call.made =>
        /\ ~topk.threw
        /\ Len(topk.value) = Min(call.k, VectorsInMemory(vectorIndex))
        /\ \A i \in 1..Len(topk.value) :
              Unscored(topk.value[i]) \in Range(vectorIndex.vectors)
        /\ \A i, j \in 1..Len(topk.value) :
              i # j => topk.value[i].id # topk.value[j].id

\* a call that cuts (k = 2 of 3 vectors)
C1_Witness ==
    /\ call.made /\ call.k = 2
    /\ VectorsInMemory(vectorIndex) = 3
    /\ Len(topk.value) = 2

\* C2 (RetrieverSpec): the result of selectTopK carries the cosine scores, is
\* ordered by non-increasing score, leaves out no vector that scores
\* strictly higher than a returned one, and keeps vectors of equal score in
\* their order in the index; for the stored embeddings [1,0], [0,1],
\* [0.9,0.1] (here scaled by 10) and the query [1,0], selectTopK(_, 2)
\* returns the first vector, then the third.
C2_Ordered ==
    call.made =>
        LET r == topk.value
            returned == {r[i].id : i \in 1..Len(r)}
        IN  /\ \A i \in 1..Len(r) :
                  r[i].score = cosineSimilarity(call.q, r[i].embedding)
            /\ \A i, j \in 1..Len(r) :
                  i < j => ScoreCmp(r[i].score, r[j].score) >= 0
            /\ \A i \in 1..Len(r), n \in 1..VectorsInMemory(vectorIndex) :
                  vectorIndex.vectors[n].id \notin returned =>
                      ScoreCmp(cosineSimilarity(call.q, vectorIndex.vectors[n].embedding),
                               r[i].score) <= 0
            /\ \A i, j \in 1..Len(r) :
                  (i < j /\ ScoreCmp(r[i].score, r[j].score) = 0) =>
                      PositionOf(vectorIndex, r[i].id) < PositionOf(vectorIndex, r[j].id)
            /\ ( /\ vectorIndex.kind = "object" /\ vectorIndex.isArray
                 /\ [n \in 1..Len(vectorIndex.vectors) |-> vectorIndex.vectors[n].embedding]
                       = ScenarioEmbeddings
                 /\ call.q = <<10, 0>> /\ call.k = 2 )
               => [i \in 1..Len(r) |-> PositionOf(vectorIndex, r[i].id)] = <<1, 3>>

\* the sort moves a record forward and keeps two of equal score in order:
\* [0,1], [1,0], [0,0] against [1,0] come back second, first, third
C2_Witness ==
    /\ call.made /\ call.q = <<10, 0>> /\ call.k = 3
    /\ VectorsInMemory(vectorIndex) = 3
    /\ [n \in 1..3 |-> vectorIndex.vectors[n].embedding]
          = <<(<<0, 10>>), (<<10, 0>>), (<<0, 0>>)>>
    /\ [i \in 1..Len(topk.value) |-> PositionOf(vectorIndex, topk.value[i].id)] = <<2, 1, 3>>

\* "no index is loaded, or the loaded index has zero vectors"
NothingToSearch(idx) == idx.kind = "null" \/ VectorsInMemory(idx) = 0

\* C3 (Spec): with no index loaded, or one of zero vectors, selectTopK
\* returns the empty sequence without throwing, for any query and any k; and
\* a question answered against such an index goes on to the completion call
\* and, unless that call fails, is answered with a reply and no sources.
C3_EmptyIndex ==
    /\ NothingToSearch(vectorIndex) =>
          \A q \in QueryEmbeddings, k \in (0..MaxK) \cup {DefaultK} :
              selectTopK(vectorIndex, q, k) = [threw |-> FALSE, value |-> <<>>]
    /\ \A s \in Slots :
          (reqs[s].called /\ NothingToSearch(reqs[s].seen)) =>
              /\ reqs[s].threw # "selectTopK"
              /\ reqs[s].contexts = <<>>
              /\ reqs[s].chatCalls = 1
              /\ reqs[s].pc = "done" =>
                    \/ reqs[s].threw = "completion"
                    \/ /\ reqs[s].resp.status = 200
                       /\ reqs[s].resp.reply # <<>>
                       /\ reqs[s].resp.sources = <<>>

\* a question answered while nothing was loaded
C3_Witness ==
    \E s \in Slots :
        /\ reqs[s].called /\ reqs[s].seen = NullIndex
        /\ reqs[s].pc = "done" /\ reqs[s].resp.status = 200
        /\ reqs[s].resp.sources = <<>>

\* the values the variable may hold: null, or a whole parsed document
CompleteIndexes == {NullIndex} \cup ServerDocs

\* C4 (Spec): under every interleaving of questions, reloads and changes of
\* the file, vectorIndex and the index each selectTopK call saw are null or
\* one whole parsed document; the variable changes only in the step in which
\* a readFile settles, and then to the document parsed from the file as it
\* is read in that step; until then the old index serves.
C4_SeenComplete ==
    /\ vectorIndex \in CompleteIndexes
    /\ \A s \in Slots : reqs[s].called => reqs[s].seen \in CompleteIndexes
C4_SwapStep ==
    /\ vectorIndex' # vectorIndex =>
          /\ file.state = "json" /\ vectorIndex' = file.doc
          /\ \E s \in 0..MaxReqs : reqs[s].pc = "readFile" /\ reqs'[s].pc = "done"
    /\ \A s \in Slots :
          (~reqs[s].called /\ reqs'[s].called) => reqs'[s].seen = vectorIndex
C4_ReloadAtomic == []C4_SeenComplete /\ [][C4_SwapStep]_vars

\* a question that searched the old, non-empty index while a reload that
\* began before it was still reading a different document
C4_Witness ==
    \E s, t \in Slots :
        /\ t < s
        /\ reqs[t].kind = "reload" /\ reqs[t].pc = "readFile"
        /\ file.state = "json" /\ file.doc # vectorIndex
        /\ reqs[s].called /\ reqs[s].pc = "completing"
        /\ reqs[s].seen = vectorIndex /\ Len(reqs[s].contexts) > 0

\* C5 (FairChunkSpec): chunkText terminates for every text and every
\* chunkSize > overlap >= 0, the defaults 1200 and 150 among them: the loop
\* reaches start >= len(text) and the call returns.
C5_Terminates == (csize > coverlap /\ coverlap >= 0) => <>(cpc = "returned")

CeilDiv(a, b) == (a + b - 1) \div b
\* the number of chunks the claim gives: one for a text shorter than
\* chunkSize, else ceil((len - overlap) / (chunkSize - overlap))
ClaimedChunks(len, chunkSize, overlap) ==
    IF len < chunkSize THEN 1 ELSE CeilDiv(len - overlap, chunkSize - overlap)

\* C6 (ChunkSpec): for a non-blank text and chunkSize > overlap >= 0,
\* chunkText returns exactly ceil((len - overlap) / (chunkSize - overlap))
\* chunks, one chunk for a text shorter than chunkSize, 2 chunks for 1500
\* characters under the defaults.  Stated for the texts without white
\* space, where no slice is dropped: the chunks pushed never exceed that
\* number (chunks only grows), and are that many when the call returns.
C6_ChunkCount ==
    ( /\ csize > coverlap /\ coverlap >= 0
      /\ Len(ctext) > 0 /\ \A i \in 1..Len(ctext) : ~IsSpace(ctext[i]) )
    => /\ Len(cchunks) <= ClaimedChunks(Len(ctext), csize, coverlap)
       /\ cpc = "returned" =>
             Len(cchunks) = ClaimedChunks(Len(ctext), csize, coverlap)

\* the run ended in main().catch on a rejected file system call
FsFailed == \E i \in 1..Len(ilog) : ilog[i][1] = "error" /\ ilog[i][2] \in FsErrors

\* C7 (IngestSpec): a run started with the credential, the file system doing
\* what it is asked, ends only by returning from main, having written the
\* index file, whatever the pages did; the file then holds the index of the
\* vectors of this run and nothing of what was there before.
C7_IndexWritten ==
    (cred /\ Ended /\ ~FsFailed) =>
        /\ ipc = "done"
        /\ disk = FileJson(MkIndex(DefaultSite, "now", EmbeddingModel, vectors))

\* the step of the for-of loop that logs a failed page
FailureStep ==
    /\ ipc = "loop"
    /\ Len(ilog') = Len(ilog) + 1
    /\ ilog'[Len(ilog')][2] = "Failed to ingest"

\* C8 (IngestSpec): a fetch or embedding failure on a page does not abort
\* the run: the step that meets it logs a warning for that page, adds no
\* vector, changes none, and leaves main at the head of the loop with the
\* next URL to take; the URLs are taken in list order, none skipped, and a
\* run that returns has taken them all.
C8_TakenInOrder ==
    /\ fetched = SubSeq(urls, 1, upos)
    /\ ipc = "done" => upos = Len(urls)
C8_FailureContinues ==
    FailureStep =>
        /\ ilog'[Len(ilog')] = <<"warn", "Failed to ingest", urls[upos + 1]>>
        /\ ipc' = "loop"
        /\ upos' = upos + 1
        /\ vectors' = vectors
C8_FailureIsolated == []C8_TakenInOrder /\ [][C8_FailureContinues]_vars

\* the first of two pages failed, the second was fetched all the same and
\* the run returned
C8_Witness ==
    /\ ipc = "done" /\ Len(urls) = 2 /\ Len(fetched) = 2
    /\ Len(ilog) >= 2
    /\ ilog[2] = <<"warn", "Failed to ingest", urls[1]>>

\* scheme and host are those of the configured site
InSite(u) ==
    /\ newURL(u).ok
    /\ newURL(u).protocol = newURL(DefaultSite).protocol
    /\ newURL(u).host = newURL(DefaultSite).host

\* C10 (IngestSpec): every URL the loop fetches, and every url of a vector
\* record, parses to the scheme and the host of the configured site; what
\* the sitemap or the homepage names on another host, under another scheme
\* or in no parseable form is not fetched.
C10_SameHostOnly ==
    /\ \A i \in 1..Len(fetched) : InSite(fetched[i])
    /\ \A i \in 1..Len(urls) : InSite(urls[i])
    /\ \A i \in 1..Len(vectors) : InSite(vectors[i].url)
    /\ ipc = "done" => \A i \in 1..Len(disk.doc.vectors) : InSite(disk.doc.vectors[i].url)

\* a sitemap naming the site under http and a page of the site: only the
\* second is fetched
C10_Witness ==
    /\ ipc = "done"
    /\ sitemap = Got(<<"http://www.arcade.ai/a", "https://www.arcade.ai/b">>)
    /\ fetched = <<"https://www.arcade.ai/b">>

\* the candidate URLs of the run, in discovery order: those of the sitemap,
\* or those of the homepage when the sitemap gave none
Candidates ==
    IF Len(fetchSitemapUrls(sitemap)) > 0 THEN fetchSitemapUrls(sitemap)
    ELSE fetchHomepageUrls(homepage, DefaultSite)
SameHostCandidates == Filter(Candidates, {u \in Range(Candidates) : InSite(u)})
DiscoveryOver == ipc \in {"loop", "writing", "closing", "done", "crashed", "hung"}

\* C11 (IngestSpec): the URLs the loop processes are the first min(limit, n)
\* of the n same-host candidates, in discovery order, and the run never
\* fetches more than limit pages (none, for a limit below 1).
C11_Truncated ==
    DiscoveryOver =>
        /\ urls = SubSeq(SameHostCandidates, 1, Min(limit, Len(SameHostCandidates)))
        /\ Len(fetched) <= Max(limit, 0)

\* the sitemap fetch or parse failed, or no <loc> of it held a URL
SitemapGaveNone ==
    /\ sitemap.fetched
    /\ ~sitemap.ok \/ \A i \in 1..Len(sitemap.items) : trimLoc(sitemap.items[i]) = ""
\* the hrefs of the homepage, resolved against the site
ResolvedHrefs ==
    {newURLWithBase(h, DefaultSite).href :
        h \in {x \in Range(homepage.items) : x # "" /\ newURLWithBase(x, DefaultSite).ok}}

\* C12 (IngestSpec): the sitemap is fetched first; the homepage is fetched if
\* and only if the sitemap fetch or parse failed or the sitemap gave no URL;
\* the URLs of the run are then anchor hrefs of the homepage resolved to
\* absolute URLs (all those of the site, when the limit cuts none), and
\* otherwise <loc> texts of the sitemap.
C12_SitemapFirst ==
    /\ homepage.fetched => sitemap.fetched
    /\ ipc = "homepage" => SitemapGaveNone
    /\ DiscoveryOver =>
          /\ sitemap.fetched
          /\ homepage.fetched <=> SitemapGaveNone
          /\ homepage.fetched =>
                /\ Range(urls) \subseteq ResolvedHrefs
                /\ Len(urls) < limit =>
                      {u \in ResolvedHrefs : InSite(u)} \subseteq Range(urls)
          /\ ~homepage.fetched =>
                Range(urls) \subseteq {trimLoc(l) : l \in Range(sitemap.items)}

\* a sitemap whose only <loc> is empty: the homepage is fetched and its two
\* relative links are the URLs of the run, resolved
C12_Witness ==
    /\ ipc = "loop"
    /\ sitemap = Got(<<"">>)
    /\ homepage = Got(<<"/a", "b">>)
    /\ urls = <<"https://www.arcade.ai/a", "https://www.arcade.ai/b">>

\* C13 (IngestSpec): a run without the credential fetches nothing (no
\* sitemap, no homepage, no page), embeds nothing, ends by process.exit(1)
\* after the error message, and leaves the index file as it found it.
C13_NoWork ==
    ~cred =>
        /\ ipc \in {"start", "exit1"}
        /\ sitemap = NotFetched /\ homepage = NotFetched
        /\ fetched = <<>> /\ vectors = <<>>
        /\ ipc = "exit1" => ilog = << <<"error", "Missing OPENAI_API_KEY">> >>
C13_DiskKept == ~cred => disk' = disk
C13_MissingCredentialFatal == []C13_NoWork /\ [][C13_DiskKept]_vars

\* a run without the credential that has exited, an earlier index in place
C13_Witness ==
    /\ ~cred /\ ipc = "exit1"
    /\ disk = FileJson(PriorIndex)

\* C14 (Spec): a request to POST /bot/answer or GET /test whose question is
\* missing, empty or blank once trimmed is answered with status 400, and
\* neither the embedding call nor the completion call is made for it.
C14_EmptyQuestionRejected ==
    \A s \in Slots :
        (reqs[s].kind \in {"answer", "test"} /\ reqs[s].question = <<>>) =>
            /\ reqs[s].pc = "done"
            /\ reqs[s].resp.status = 400
            /\ reqs[s].embedCalls = 0 /\ reqs[s].chatCalls = 0

\* C15 (Spec): a question whose embedding call or completion call fails
\* is answered once, with status 500 and the generic message; no request
\* makes more than one embedding call or more than one completion call, and
\* none makes a completion call after its embedding call failed.
C15_NoRetry ==
    \A s \in Slots :
        /\ reqs[s].embedCalls <= 1 /\ reqs[s].chatCalls <= 1
        /\ reqs[s].threw = "embedText" => reqs[s].chatCalls = 0
        /\ reqs[s].threw \in {"embedText", "completion"} =>
              /\ reqs[s].pc = "done"
              /\ reqs[s].resp = ErrorResp(500, "Internal error")
C15_AnsweredOnce ==
    \A s \in Slots : reqs[s].resp # NoResp => reqs'[s] = reqs[s]
C15_UpstreamFailure == []C15_NoRetry /\ [][C15_AnsweredOnce]_vars

\* one question failed at the embedding call, another at the completion call
C15_Witness ==
    \E s, t \in Slots :
        /\ reqs[s].threw = "embedText" /\ reqs[s].embedCalls = 1
        /\ reqs[s].resp.status = 500
        /\ reqs[t].threw = "completion" /\ reqs[t].chatCalls = 1
        /\ reqs[t].resp.status = 500

\* C16 (Spec): the sources of an answer are the {title, url} pairs of the
\* first min(3, n) of the n retrieved contexts, in rank order: never more
\* than 3, and each one names a record of the index that was searched.
C16_Sources ==
    \A s \in Slots :
        (reqs[s].kind \in {"answer", "test"} /\ reqs[s].resp.status = 200) =>
            LET c == reqs[s].contexts
                src == reqs[s].resp.sources
            IN  /\ Len(src) = Min(3, Len(c))
                /\ Len(src) <= 3
                /\ \A i \in 1..Len(src) :
                      /\ src[i] = [title |-> c[i].title, url |-> c[i].url]
                      /\ Unscored(c[i]) \in Range(reqs[s].seen.vectors)

\* six contexts retrieved from seven vectors, the first three of them named
C16_Witness ==
    \E s \in Slots :
        /\ reqs[s].resp.status = 200
        /\ Len(reqs[s].seen.vectors) = 7
        /\ Len(reqs[s].contexts) = 6 /\ Len(reqs[s].resp.sources) = 3
        /\ reqs[s].resp.sources[1].url = reqs[s].contexts[1].url

\* the slice the next iteration of the loop takes
NextSlice == SubSeq(ctext, cstart + 1, Min(Len(ctext), cstart + csize))
Blank(t) == \A i \in 1..Len(t) : IsSpace(t[i])

\* C17 (ChunkSpec): at every step of the loop of chunkText, every chunk
\* pushed so far is at most chunkSize long, is not empty and is not white
\* space only; an iteration whose slice is empty or white space only pushes
\* nothing.
C17_ChunksWellFormed ==
    \A i \in 1..Len(cchunks) :
        /\ Len(cchunks[i]) <= csize
        /\ Len(cchunks[i]) > 0
        /\ ~Blank(cchunks[i])
C17_BlankDropped == (cpc = "loop" /\ Blank(NextSlice)) => cchunks' = cchunks
C17_ChunkShape == []C17_ChunksWellFormed /\ [][C17_BlankDropped]_vars

\* a call that dropped a slice of two spaces and returned the one after it
C17_Witness ==
    /\ cpc = "returned"
    /\ ctext = <<" ", " ", "a", "a">> /\ csize = 2 /\ coverlap = 0
    /\ cchunks = << <<"a", "a">> >>

\* the failures of the discovery the run recovered from so far, and the
\* warnings and errors logged other than those of the page loop
DiscoveryFailures ==
    (IF sitemap.fetched /\ ~sitemap.ok THEN 1 ELSE 0)
    + (IF homepage.fetched /\ ~homepage.ok THEN 1 ELSE 0)
DiscoveryWarnings ==
    Cardinality({i \in 1..Len(ilog) :
                    /\ ilog[i][1] \in {"warn", "error"}
                    /\ ilog[i][2] \notin {"Failed to ingest"} \cup FsErrors})

\* C18 (IngestSpec): every failure the run recovers from is logged where it
\* is recovered from: a failed sitemap fetch or parse and a failed homepage
\* fetch each leave a warning or an error in the log before the run goes on.
C18_RecoveryLogged == DiscoveryWarnings >= DiscoveryFailures

\* the step in which the loadIndex of slot s resolves without having loaded:
\* no file was found, or readFile or JSON.parse threw
LoadFailedStep(s) ==
    /\ reqs[s].pc \in {"pathExists", "readFile"}
    /\ reqs'[s].pc = "done"
    /\ reqs[s].pc = "pathExists" \/ reqs'[s].threw \in {"readFile", "JSON.parse"}

\* C19 (Spec): a load that finds no index file, or whose read or parse of
\* the file fails, leaves vectorIndex as it was, so that the index loaded
\* before keeps serving; the reload request is answered with the number of
\* vectors of the index then in memory.
C19_FailedLoad ==
    \A s \in 0..MaxReqs :
        LoadFailedStep(s) =>
            /\ vectorIndex' = vectorIndex
            /\ reqs[s].kind = "reload" =>
                  reqs'[s].resp = [NoResp EXCEPT !.status = 200,
                                                 !.vectors = VectorsInMemory(vectorIndex')]
C19_FailedReloadKeepsIndex == [][C19_FailedLoad]_vars

\* a reload met a file that does not parse while two vectors were loaded:
\* it answered 2 and the two are still there
C19_Witness ==
    \E s \in Slots :
        /\ reqs[s].kind = "reload" /\ reqs[s].pc = "done"
        /\ reqs[s].threw = "JSON.parse"
        /\ reqs[s].resp.vectors = 2
        /\ VectorsInMemory(vectorIndex) = 2

VectorFields == {"id", "url", "title", "content", "embedding"}

\* C20 (Spec): answering questions leaves the stored index as it is: the
\* step in which a request calls selectTopK changes neither the records of
\* vectorIndex nor their order, no stored record ever has a score field,
\* and vectorIndex changes only in the step in which a loadIndex (startup or
\* reload) has read the file.
C20_NoScoreStored ==
    \A i \in 1..VectorsInMemory(vectorIndex) : DOMAIN vectorIndex.vectors[i] = VectorFields
C20_OnlyLoadWrites ==
    /\ \A s \in Slots :
          (reqs[s].pc \in {"embedding", "completing"} /\ reqs'[s] # reqs[s]) =>
              vectorIndex' = vectorIndex
    /\ vectorIndex' # vectorIndex =>
          \E s \in 0..MaxReqs : reqs[s].pc = "readFile" /\ reqs'[s].pc = "done"
C20_ServingReadOnly == []C20_NoScoreStored /\ [][C20_OnlyLoadWrites]_vars

\* a question answered from the index of seven vectors, whose first, fourth,
\* seventh, third, sixth and second came back, in that order, while the
\* index still holds the seven as loaded
C20_Witness ==
    \E s \in Slots :
        /\ reqs[s].pc = "done" /\ reqs[s].resp.status = 200
        /\ vectorIndex = IndexOfSize("s", "t3", "m3", "u3", 7)
        /\ reqs[s].seen = vectorIndex
        /\ [i \in 1..Len(reqs[s].contexts) |-> PositionOf(vectorIndex, reqs[s].contexts[i].id)]
              = <<1, 4, 7, 3, 6, 2>>
============================================================================
